---- MODULE Spec2Model ----
(***************************************************************************)
(* Model of the agent wrappers of src/agents: AgentBase.call_openai (the   *)
(* retry loop around the remote chat-completion call) and the execute      *)
(* coroutines of SanitizeDataTool and SummarizeTool.                       *)
(*                                                                         *)
(* Text is modelled as sequences of one-character strings.  Inputs of      *)
(* execute are run-length encoded (a literal head followed by count        *)
(* copies of one fill character) so that inputs of 8000 and 10000          *)
(* characters can be enumerated.  Logging has no effect on the state the   *)
(* claims are about and is left out; verbose is kept as a field.           *)
(***************************************************************************)
EXTENDS Integers, Sequences, FiniteSets, TLC

\* ------------------------------------------------------------------ bounds

\* Largest retry budget an agent is constructed with.
MaxRetries == 2

\* Number of execute invocations that may run concurrently (SpecConc).
NumInvocations == 2

\* ------------------------------------------------------- program constants

SanitizeMaxLen == 8000

SummarizeMaxLen == 10000

\* ------------------------------------------------------------------- text

Whitespace == {" ", "\n", "\t"}

\* A str argument of execute: head followed by count copies of fill.
Str(head, fill, count) == [head |-> head, fill |-> fill, count |-> count]

\* len(s)
StrLen(s) == Len(s.head) + s.count

\* s.strip() == "" : every character of s is whitespace.
StripIsEmpty(s) ==
    /\ \A i \in 1..Len(s.head) : s.head[i] \in Whitespace
    /\ (s.count = 0 \/ s.fill \in Whitespace)

\* Faulty variant of IsBlank: only the emptiness test, the strip() test forgotten.
IsBlankNoStrip(s) == StrLen(s) = 0

\* `not s or not s.strip()`
IsBlank(s) == StrLen(s) = 0 \/ StripIsEmpty(s)

\* text.strip() on a sequence of characters.
RECURSIVE LStrip(_)
LStrip(t) == IF t # <<>> /\ Head(t) \in Whitespace THEN LStrip(Tail(t)) ELSE t

RECURSIVE RStrip(_)
RStrip(t) ==
    IF t # <<>> /\ t[Len(t)] \in Whitespace
    THEN RStrip(SubSeq(t, 1, Len(t) - 1))
    ELSE t

Strip(t) == RStrip(LStrip(t))

\* t[i:i+len(sep)] == sep
MatchAt(t, sep, i) ==
    /\ i + Len(sep) - 1 <= Len(t)
    /\ \A j \in 1..Len(sep) : t[i + j - 1] = sep[j]

\* `sep in t`
Contains(t, sep) == \E i \in 1..(Len(t) + 1) : MatchAt(t, sep, i)

\* Index of the first occurrence of sep in t (only used when Contains).
FirstIndex(t, sep) ==
    CHOOSE i \in 1..(Len(t) + 1) :
        /\ MatchAt(t, sep, i)
        /\ \A k \in 1..(i - 1) : ~MatchAt(t, sep, k)

\* t.split(sep) for a non-empty sep: the list of the pieces between occurrences.
RECURSIVE Split(_, _)
Split(t, sep) ==
    IF ~Contains(t, sep)
    THEN <<t>>
    ELSE LET i == FirstIndex(t, sep)
         IN  <<SubSeq(t, 1, i - 1)>> \o Split(SubSeq(t, i + Len(sep), Len(t)), sep)

\* --------------------------------------------------- values and exceptions

\* The object `response.choices[0].message` of the client library.
Message(content) == [type |-> "ChatCompletionMessage", content |-> content]

\* Python types whose instances can be used in an `await` expression.
AwaitableTypes == {"coroutine", "Task", "Future"}

\* Python types that support `obj["content"]`.
SubscriptableTypes == {"dict"}

Exc(cls, msg, n) == [cls |-> cls, msg |-> msg, n |-> n]

NoExc == Exc("none", "", 0)

NoValue == [none |-> TRUE]

\* agents.agent_base.OpenAIError, the class call_openai raises.
AgentOpenAIError == "agents.agent_base.OpenAIError"

\* Subclasses of openai.OpenAIError, the class the tools import and catch.
LibOpenAIErrors == {"openai.OpenAIError", "openai.APIError"}

\* Subclasses of Exception among the classes of the model.
ExceptionClasses ==
    LibOpenAIErrors \cup {AgentOpenAIError, "ValueError", "TypeError", "AttributeError"}

\* What an execute invocation hands to its caller.
Return(value) == [kind |-> "return", via |-> "return", exc |-> NoExc, value |-> value]

Raise(exc, via) == [kind |-> "raise", via |-> via, exc |-> exc, value |-> NoValue]

Ok(value) == [ok |-> TRUE, value |-> value]

Err(exc) == [ok |-> FALSE, exc |-> exc]

\* ------------------------------------------------------------ AgentBase

AgentIds == {"sanitize", "summarize"}

AgentName(a) == IF a = "sanitize" THEN "sanitize_data_tool" ELSE "medical_summarize_tool"

\* AgentBase.__init__
Agent(a, max_retries, verbose) ==
    [name |-> AgentName(a), max_retries |-> max_retries, verbose |-> verbose]

\* Faulty variant of LoopCond: off by one, one attempt too many.
LoopCondInclusive(retries, max_retries) == retries <= max_retries

\* `while retries < self.max_retries`
LoopCond(retries, max_retries) == retries < max_retries

\* `if not response.choices` is false
HasChoices(response) == response.choices # <<>>

\* Faulty variant of CallCatches: `except OpenAIError` with the library's class, so that
\* the module's own "No choices" error escapes the loop.
CallCatchesLibOnly(cls) == cls \in LibOpenAIErrors

\* Faulty variant of CallCatches: `except OpenAIError` with the module's own class, so
\* that an error raised by the client library escapes the loop.
CallCatchesOwnOnly(cls) == cls = AgentOpenAIError

\* `except Exception` of call_openai
CallCatches(cls) == cls \in ExceptionClasses

NoChoicesError == Exc(AgentOpenAIError, "No choices in OpenAI response", 0)

\* `raise OpenAIError(f"Failed to get response after {self.max_retries} retries")`
FinalError(max_retries) ==
    Exc(AgentOpenAIError, "Failed to get response after n retries", max_retries)

\* ------------------------------------------------------------ the tools

\* Faulty variant of ExecuteHandler: the `except Exception` clause is missing.
ExecuteHandlerNoCatchAll(exc) ==
    IF exc.cls \in LibOpenAIErrors THEN "except OpenAIError" ELSE "uncaught"

\* The except clause of execute that catches an exception raised in its try
\* block; both clauses log and re-raise the exception unchanged.
ExecuteHandler(exc) ==
    IF exc.cls \in LibOpenAIErrors THEN "except OpenAIError"
    ELSE IF exc.cls \in ExceptionClasses THEN "except Exception"
    ELSE "uncaught"

\* `await <value>`
Await(v) ==
    IF v.type \in AwaitableTypes
    THEN Ok(v.result)
    ELSE Err(Exc("TypeError", "object can't be used in 'await' expression", 0))

MaxLen(a) == IF a = "sanitize" THEN SanitizeMaxLen ELSE SummarizeMaxLen

\* Input validation of execute: the exception it raises, or NoExc.
Validate(a, text) ==
    IF IsBlank(text)
    THEN Exc("ValueError",
             IF a = "sanitize" THEN "Medical data cannot be empty"
                               ELSE "Prompt cannot be empty", 0)
    ELSE IF StrLen(text) > MaxLen(a)
    THEN Exc("ValueError",
             IF a = "sanitize" THEN "Input data exceeds maximum length"
                               ELSE "Prompt exceeds maximum length", 0)
    ELSE NoExc

PhiPlaceholders ==
    { <<"[", "N", "A", "M", "E", "]">>,
      <<"[", "D", "A", "T", "E", "]">>,
      <<"[", "A", "D", "D", "R", "E", "S", "S", "]">>,
      <<"[", "P", "H", "O", "N", "E", "]">> }

\* any(placeholder in sanitized_data for placeholder in [...])
PhiDetected(sanitized_data) == \E ph \in PhiPlaceholders : Contains(sanitized_data, ph)

\* The try block of SanitizeDataTool.execute after call_openai returned reply.
SanitizeBody(medical_data, reply) ==
    LET aw == Await(reply)
    IN  IF ~aw.ok THEN aw
        ELSE IF aw.value.type \notin SubscriptableTypes
        THEN Err(Exc("TypeError", "object is not subscriptable", 0))
        ELSE LET sanitized_data == aw.value.content
             IN  Ok([sanitized_data |-> sanitized_data,
                     original_length |-> StrLen(medical_data),
                     sanitized_length |-> Len(sanitized_data),
                     phi_detected |-> PhiDetected(sanitized_data)])

\* The separator of response.split: "\nMedical terms:"
SplitMarker ==
    <<"\n", "M", "e", "d", "i", "c", "a", "l", " ", "t", "e", "r", "m", "s", ":">>

\* [term.strip() for term in parts[1].split(",")]
Terms(part) == LET ts == Split(part, <<",">>) IN [i \in 1..Len(ts) |-> Strip(ts[i])]

\* The try block of SummarizeTool.execute after call_openai returned reply.
SummarizeBody(prompt, reply) ==
    LET aw == Await(reply)
    IN  IF ~aw.ok THEN aw
        ELSE IF aw.value.type # "str"
        THEN Err(Exc("AttributeError", "object has no attribute 'split'", 0))
        ELSE LET parts == Split(aw.value.content, SplitMarker)
                 summary == Strip(parts[1])
             IN  Ok([summary |-> summary,
                     original_length |-> StrLen(prompt),
                     summary_length |-> Len(summary),
                     medical_terms_identified |->
                         IF Len(parts) > 1 THEN Terms(parts[2]) ELSE <<>>])

TryBody(a, text, reply) ==
    IF a = "sanitize" THEN SanitizeBody(text, reply) ELSE SummarizeBody(text, reply)

\* What execute hands to its caller once call_openai has returned reply.
AfterCall(a, text, reply) ==
    LET r == TryBody(a, text, reply)
    IN  IF r.ok THEN Return(r.value) ELSE Raise(r.exc, ExecuteHandler(r.exc))

\* ------------------------------------------------------------------ state

Invocations == 1..NumInvocations

VARIABLES
    agents,     \* the two tool instances: name, max_retries, verbose
    pc,         \* position of each execute invocation
    tool,       \* the instance each invocation runs on
    arg,        \* the text each invocation was called with
    retries,    \* the local variable retries of each invocation's call_openai
    inflight,   \* requests of each invocation the remote has not answered yet
    calls,      \* how often each invocation invoked the remote call
    nEmpty,     \* how many answers to each invocation had zero candidates
    delivered,  \* the reply call_openai returned to each invocation, if any
    outcomes    \* what each invocation handed to its caller, in order

vars == <<agents, pc, tool, arg, retries, inflight, calls, nEmpty, delivered, outcomes>>

\* ----------------------------------------------------------------- inputs

Chars(n) == Str(<<>>, "x", n)

Inputs ==
    { Str(<<>>, "x", 0),
      Str(<<" ", "\n", "\t">>, "x", 0),
      Str(<<>>, " ", SanitizeMaxLen + 1),
      Str(<<" ", "a", " ">>, "x", 0),
      Chars(SanitizeMaxLen), Chars(SanitizeMaxLen + 1),
      Chars(SummarizeMaxLen), Chars(SummarizeMaxLen + 1) }

ConcInputs == { Str(<<" ">>, "x", 0), Str(<<"a">>, "x", 0) }

ReplyNamed == <<"[", "N", "A", "M", "E", "]", " ", "o", "k">>

ReplyPlain == <<"o", "k">>

ReplyTerms == <<"S", ".">> \o SplitMarker \o <<" ", "d", ",", " ", "h">>

ReplyMarkerFirst == Tail(SplitMarker) \o <<" ", "d">>

Replies == { ReplyNamed, ReplyPlain, ReplyTerms, ReplyMarkerFirst }

Response(choices) == [kind |-> "response", choices |-> choices]

RemoteRaise(cls) == [kind |-> "raise", cls |-> cls]

\* What one remote call can do: answer with candidates, answer with none, raise.
Behaviours ==
    { Response(<<Message(r)>>) : r \in Replies }
        \cup { Response(<<Message(ReplyPlain), Message(ReplyNamed)>>),
               Response(<<>>),
               RemoteRaise("openai.APIError") }

ConcBehaviours ==
    { Response(<<Message(ReplyPlain)>>), Response(<<>>), RemoteRaise("openai.APIError") }

\* ------------------------------------------------------------------- Init

InitInvocations ==
    /\ pc = [p \in Invocations |-> "idle"]
    /\ tool = [p \in Invocations |-> "none"]
    /\ arg = [p \in Invocations |-> Str(<<>>, "x", 0)]
    /\ retries = [p \in Invocations |-> 0]
    /\ inflight = [p \in Invocations |-> 0]
    /\ calls = [p \in Invocations |-> 0]
    /\ nEmpty = [p \in Invocations |-> 0]
    /\ delivered = [p \in Invocations |-> <<>>]
    /\ outcomes = [p \in Invocations |-> <<>>]

Init ==
    /\ \E m \in [AgentIds -> 1..MaxRetries], v \in [AgentIds -> BOOLEAN] :
           agents = [a \in AgentIds |-> Agent(a, m[a], v[a])]
    /\ InitInvocations

InitConc ==
    /\ \E m \in [AgentIds -> 1..MaxRetries] :
           agents = [a \in AgentIds |-> Agent(a, m[a], TRUE)]
    /\ InitInvocations

\* ---------------------------------------------------------------- actions

\* execute ends: its caller receives outcome (a returned value or an exception).
Finish(p, outcome) ==
    /\ pc' = [pc EXCEPT ![p] = "done"]
    /\ outcomes' = [outcomes EXCEPT ![p] = Append(@, outcome)]

\* Faulty variant of RetriesAfterFailure: the counter is kept on the instance,
\* shared by every invocation running on it.
RetriesAfterFailureShared(p) ==
    [q \in Invocations |-> IF tool[q] = tool[p] THEN retries[q] + 1 ELSE retries[q]]

\* `retries += 1` on the local variable of this call
RetriesAfterFailure(p) == [retries EXCEPT ![p] = @ + 1]

\* Faulty variant of InflightAfterAnswer: the request is not awaited before the
\* next one is issued.
InflightAfterAnswerKept(p) == inflight

\* The blocking remote call returned or raised: the request is over.
InflightAfterAnswer(p) == [inflight EXCEPT ![p] = @ - 1]

\* execute(text) on instance a, up to the call of call_openai: validation
\* raises before the try block; otherwise call_openai starts with retries = 0.
Execute(p, a, text) ==
    /\ pc[p] = "idle"
    /\ tool' = [tool EXCEPT ![p] = a]
    /\ arg' = [arg EXCEPT ![p] = text]
    /\ IF Validate(a, text) # NoExc
       THEN Finish(p, Raise(Validate(a, text), "validation"))
       ELSE /\ pc' = [pc EXCEPT ![p] = "loop"]
            /\ UNCHANGED outcomes
    /\ UNCHANGED <<agents, retries, inflight, calls, nEmpty, delivered>>

\* One iteration of the loop begins: the request is sent to the remote.
SendRequest(p) ==
    /\ pc[p] = "loop"
    /\ LoopCond(retries[p], agents[tool[p]].max_retries)
    /\ pc' = [pc EXCEPT ![p] = "inflight"]
    /\ calls' = [calls EXCEPT ![p] = @ + 1]
    /\ inflight' = [inflight EXCEPT ![p] = @ + 1]
    /\ UNCHANGED <<agents, tool, arg, retries, nEmpty, delivered, outcomes>>

\* The loop ends without a reply: call_openai raises, execute re-raises.
Exhausted(p) ==
    /\ pc[p] = "loop"
    /\ ~LoopCond(retries[p], agents[tool[p]].max_retries)
    /\ LET exc == FinalError(agents[tool[p]].max_retries)
       IN  Finish(p, Raise(exc, ExecuteHandler(exc)))
    /\ UNCHANGED <<agents, tool, arg, retries, inflight, calls, nEmpty, delivered>>

\* The exception call_openai sees in its try block for answer b, or NoExc.
AttemptError(b) ==
    IF b.kind = "raise" THEN Exc(b.cls, "remote call failed", 0)
    ELSE IF ~HasChoices(b) THEN NoChoicesError
    ELSE NoExc

\* The remote answers the request of invocation p with b.
Receive(p, b) ==
    /\ pc[p] = "inflight"
    /\ inflight' = InflightAfterAnswer(p)
    /\ nEmpty' = [nEmpty EXCEPT ![p] = IF b.kind = "response" /\ b.choices = <<>>
                                        THEN @ + 1 ELSE @]
    /\ LET exc == AttemptError(b)
       IN  IF exc = NoExc
           THEN /\ delivered' = [delivered EXCEPT ![p] = <<b.choices[1].content>>]
                /\ Finish(p, AfterCall(tool[p], arg[p], b.choices[1]))
                /\ UNCHANGED retries
           ELSE IF CallCatches(exc.cls)
           THEN /\ retries' = RetriesAfterFailure(p)
                /\ pc' = [pc EXCEPT ![p] = "loop"]
                /\ UNCHANGED <<delivered, outcomes>>
           ELSE /\ Finish(p, Raise(exc, ExecuteHandler(exc)))
                /\ UNCHANGED <<retries, delivered>>
    /\ UNCHANGED <<agents, tool, arg, calls>>

\* ------------------------------------------------------- specifications

\* One execute invocation in isolation, over every input and remote behaviour.
Next ==
    \/ \E a \in AgentIds, text \in Inputs : Execute(1, a, text)
    \/ SendRequest(1)
    \/ Exhausted(1)
    \/ \E b \in Behaviours : Receive(1, b)

Spec == Init /\ [][Next]_vars

\* NumInvocations execute invocations interleaved at their remote calls.
NextConc ==
    \/ \E p \in Invocations, a \in AgentIds, text \in ConcInputs : Execute(p, a, text)
    \/ \E p \in Invocations : SendRequest(p)
    \/ \E p \in Invocations : Exhausted(p)
    \/ \E p \in Invocations, b \in ConcBehaviours : Receive(p, b)

SpecConc == InitConc /\ [][NextConc]_vars

\* ----------------------------------------------------- claim vocabulary

Done(p) == pc[p] = "done"

Outcome(p) == outcomes[p][1]

Budget(p) == agents[tool[p]].max_retries

\* The input is non-blank and within the length limit of its tool.
ValidInput(p) == ~StripIsEmpty(arg[p]) /\ StrLen(arg[p]) <= MaxLen(tool[p])

Handlers == {"except OpenAIError", "except Exception"}

\* InvalidInputError of the specification: ValueError raised by the validation.
IsInvalidInput(o) == o.kind = "raise" /\ o.exc.cls = "ValueError" /\ o.via = "validation"

\* RemoteCallError of the specification, carrying the retry count n.
IsRemoteCallError(o, n) ==
    o.kind = "raise" /\ o.exc = FinalError(n) /\ o.via \in Handlers

\* UnexpectedError of the specification: any other failure of the try block,
\* logged and re-raised by one of the except clauses of execute.
IsUnexpected(o) ==
    o.kind = "raise" /\ o.via \in Handlers /\ o.exc.cls \notin {AgentOpenAIError, "ValueError"}

ResultFields(a) ==
    IF a = "sanitize"
    THEN {"sanitized_data", "original_length", "sanitized_length", "phi_detected"}
    ELSE {"summary", "original_length", "summary_length", "medical_terms_identified"}

IsResult(o, a) == o.kind = "return" /\ DOMAIN o.value = ResultFields(a)

\* An error of one attempt, as opposed to the terminal error of call_openai.
IsAttemptError(o) ==
    o.kind = "raise" /\ (o.exc = NoChoicesError \/ o.exc.cls \in LibOpenAIErrors)

\* The marker as the specification states it: "Medical terms:"
ClaimMarker == Tail(SplitMarker)

ClaimSummary(r) ==
    IF Contains(r, ClaimMarker)
    THEN Strip(SubSeq(r, 1, FirstIndex(r, ClaimMarker) - 1))
    ELSE Strip(r)

ClaimTerms(r) ==
    IF Contains(r, ClaimMarker)
    THEN Terms(SubSeq(r, FirstIndex(r, ClaimMarker) + Len(ClaimMarker), Len(r)))
    ELSE <<>>

\* ------------------------------------------------------------------ claims

\* C1: when the remote call fails on the first k < max_retries attempts of an
\* execute invocation with valid input and succeeds on attempt k+1, execute
\* returns the structured result built from that reply and the remote call was
\* invoked exactly k+1 times.
C1_RetryReturnsResult ==
    \A p \in Invocations :
        (Done(p) /\ delivered[p] # <<>>) =>
            /\ calls[p] = retries[p] + 1
            /\ IsResult(Outcome(p), tool[p])

\* C2: when the remote call fails on every attempt of an execute invocation with
\* valid input, execute raises the RemoteCallError carrying max_retries and the
\* remote call was invoked exactly max_retries times; it is never invoked more
\* often than max_retries times.
C2_Exhaustion ==
    \A p \in Invocations :
        /\ pc[p] # "idle" => calls[p] <= Budget(p)
        /\ (Done(p) /\ ValidInput(p) /\ delivered[p] = <<>>) =>
               /\ calls[p] = Budget(p)
               /\ outcomes[p] = <<Raise(FinalError(Budget(p)), "except Exception")>>

C2_Witness ==
    \E p \in Invocations :
        /\ Done(p) /\ ValidInput(p) /\ delivered[p] = <<>>
        /\ Budget(p) >= 2 /\ calls[p] = Budget(p)
        /\ IsRemoteCallError(Outcome(p), Budget(p))

\* C3: execute of either tool on an empty or whitespace-only input raises
\* InvalidInputError at once, and the remote call is never invoked for it.
C3_BlankInputRejected ==
    \A p \in Invocations :
        (pc[p] # "idle" /\ StripIsEmpty(arg[p])) =>
            /\ Done(p)
            /\ calls[p] = 0 /\ inflight[p] = 0 /\ retries[p] = 0
            /\ Len(outcomes[p]) = 1
            /\ IsInvalidInput(Outcome(p))

C3_Witness ==
    \E p \in Invocations :
        /\ Done(p) /\ StripIsEmpty(arg[p]) /\ StrLen(arg[p]) > 0
        /\ IsInvalidInput(Outcome(p)) /\ calls[p] = 0

\* C4: with a remote call that succeeds, a non-blank input of exactly the
\* length limit of its tool (8000 / 10000) gives a structured result, and an
\* input one character longer raises InvalidInputError without a remote call.
C4_LengthBoundary ==
    \A p \in Invocations :
        Done(p) =>
            /\ (~StripIsEmpty(arg[p]) /\ StrLen(arg[p]) = MaxLen(tool[p])
                    /\ delivered[p] # <<>>) => IsResult(Outcome(p), tool[p])
            /\ StrLen(arg[p]) = MaxLen(tool[p]) + 1 =>
                   (IsInvalidInput(Outcome(p)) /\ calls[p] = 0)

\* C5: for a non-blank input within the length limit and any behaviour of the
\* remote call, execute ends in exactly one outcome, which is a well-formed
\* structured result, InvalidInputError, RemoteCallError or UnexpectedError.
C5_DefinedOutcomes ==
    \A p \in Invocations :
        (Done(p) /\ ValidInput(p)) =>
            /\ Len(outcomes[p]) = 1
            /\ \/ IsResult(Outcome(p), tool[p])
               \/ IsInvalidInput(Outcome(p))
               \/ IsRemoteCallError(Outcome(p), Budget(p))
               \/ IsUnexpected(Outcome(p))

C5_Witness ==
    \E p \in Invocations :
        /\ Done(p) /\ ValidInput(p)
        /\ retries[p] = 1 /\ delivered[p] # <<>>
        /\ IsUnexpected(Outcome(p))

\* C6: an execute invocation has at most one remote request in flight, issues
\* attempt i+1 only after attempt i failed, and hands its caller exactly one
\* outcome, which is never the error of an intermediate attempt.
C6_OneRequestOneOutcome ==
    \A p \in Invocations :
        /\ inflight[p] \in {0, 1}
        /\ inflight[p] = 1 <=> pc[p] = "inflight"
        /\ calls[p] = retries[p] + inflight[p] + Len(delivered[p])
        /\ Len(delivered[p]) <= 1
        /\ Len(outcomes[p]) = (IF Done(p) THEN 1 ELSE 0)
        /\ Done(p) => ~IsAttemptError(Outcome(p))

C6_Witness ==
    \E p \in Invocations :
        /\ pc[p] = "inflight" /\ inflight[p] = 1
        /\ retries[p] >= 1 /\ calls[p] = retries[p] + 1
        /\ outcomes[p] = <<>>

\* C7: summarize execute returns as summary the trimmed reply text before the
\* marker "Medical terms:" and as medical_terms_identified the trimmed
\* comma-separated segments after it; without the marker the summary is the
\* trimmed reply and the term list is empty.
C7_MedicalTermParsing ==
    \A p \in Invocations :
        (Done(p) /\ tool[p] = "summarize" /\ delivered[p] # <<>>) =>
            /\ IsResult(Outcome(p), "summarize")
            /\ Outcome(p).value.summary = ClaimSummary(delivered[p][1])
            /\ Outcome(p).value.medical_terms_identified = ClaimTerms(delivered[p][1])

\* C8: sanitize execute returns phi_detected true exactly when the reply text
\* contains one of [NAME], [DATE], [ADDRESS], [PHONE], with sanitized_data the
\* reply text, original_length the input length and sanitized_length the
\* length of the reply text.
C8_PhiHeuristic ==
    \A p \in Invocations :
        (Done(p) /\ tool[p] = "sanitize" /\ delivered[p] # <<>>) =>
            /\ IsResult(Outcome(p), "sanitize")
            /\ Outcome(p).value.sanitized_data = delivered[p][1]
            /\ Outcome(p).value.phi_detected = PhiDetected(delivered[p][1])
            /\ Outcome(p).value.original_length = StrLen(arg[p])
            /\ Outcome(p).value.sanitized_length = Len(delivered[p][1])

\* C9: an answer with zero candidates consumes one attempt like a raised error
\* and never reaches the caller; when every one of the max_retries attempts has
\* zero candidates, call_openai fails with RemoteCallError after exactly
\* max_retries invocations and returns no reply.
C9_ZeroCandidates ==
    \A p \in Invocations :
        /\ nEmpty[p] <= retries[p]
        /\ Done(p) => Outcome(p).exc # NoChoicesError
        /\ (pc[p] # "idle" /\ nEmpty[p] = Budget(p)) =>
               /\ calls[p] = Budget(p)
               /\ delivered[p] = <<>>
               /\ pc[p] \in {"loop", "done"}
               /\ Done(p) => IsRemoteCallError(Outcome(p), Budget(p))

C9_Witness ==
    \E p \in Invocations :
        /\ Done(p) /\ Budget(p) >= 2 /\ nEmpty[p] = Budget(p)
        /\ calls[p] = Budget(p)
        /\ IsRemoteCallError(Outcome(p), Budget(p))

\* The retry counter of p counts the failed attempts of p and of no other
\* invocation, and p alone spends its budget.
OwnBudget(p) ==
    /\ retries[p] = calls[p] - inflight[p] - Len(delivered[p])
    /\ pc[p] # "idle" => calls[p] <= Budget(p)
    /\ (Done(p) /\ ValidInput(p) /\ delivered[p] = <<>>) =>
           (calls[p] = Budget(p) /\ IsRemoteCallError(Outcome(p), Budget(p)))
    /\ (Done(p) /\ delivered[p] # <<>>) => calls[p] = retries[p] + 1

\* C10: concurrent execute invocations, on the same or on different instances,
\* are independent under every interleaving: each has its own retry counter
\* and budget, and no step changes the fields of an agent.
C10_Independent ==
    /\ [](\A p \in Invocations : OwnBudget(p))
    /\ [][agents' = agents]_vars

C10_Witness ==
    \E p, q \in Invocations :
        /\ p # q /\ tool[p] = tool[q]
        /\ pc[p] = "inflight" /\ retries[p] = 0
        /\ pc[q] = "inflight" /\ retries[q] >= 1

====
